---- MODULE Spec2Model ----
(***************************************************************************)
(* Model of the DOCX template handler of SGV-Vigilance-Report              *)
(* (src/utils/docx_handler.py): placeholder matching, placeholder          *)
(* replacement and batch report generation with collision-free filenames. *)
(*                                                                         *)
(* Text is a sequence of one-character strings, so that substring search,  *)
(* str.replace, re.findall, str.lower and str() are modelled by what they  *)
(* do to the characters.                                                   *)
(***************************************************************************)
EXTENDS Integers, Sequences, FiniteSets, TLC

VARIABLES
    pc,             \* position of the modelled call
    placeholders,   \* match_placeholders_to_columns: the placeholder set
    order,          \* the order in which Python iterates that set
    df_columns,     \* match_placeholders_to_columns: list of column names
    matched,        \* result dict {placeholder: column}
    unmatched,      \* result list of placeholders
    template_file,  \* the template document read by Document(template_file)
    df,             \* the DataFrame: [columns: list of names, rows: list of value lists]
    image_handler,  \* self.image_handler is set
    image_data_list, \* what image_handler.download_and_encode_images returns
    filled_docx,    \* what generate_from_template returned or raised
    today,          \* datetime.now().strftime('%Y-%m-%d')
    template_pos,   \* position of the template_file stream: "start" or "end"
    index,          \* generate_multiple_client_reports: loop variable
    file_list,      \* generate_multiple_client_reports: filenames so far
    original_filename, \* the filename composed before collision handling
    zip_buffer,     \* the archive buffer: "none", "open" (inside `with`) or "closed"
    zip_file,       \* entries written to the archive: <<filename, pdf_bytes>>
    calls,          \* the calls of generate_client_report made by the batch loop
    result,         \* what generate_multiple_client_reports returned or raised
    download,       \* what the application shows after the Generate button
    images_string,  \* download_and_encode_images: the cell with the image references
    net,            \* what the network answers to the k-th reference of the list
    requests,       \* the URLs requested with requests.get, in order
    encoded_images, \* what download_and_encode_images returned
    temp_dir,       \* files of DocxHandler.temp_dir left by the handler
    cleaned         \* image_handler.cleanup_temp_dir() has been called

matchVars == <<placeholders, order, df_columns, matched, unmatched>>
inputVars == <<template_file, df, image_handler, image_data_list, today>>
imageVars == <<images_string, net, requests, encoded_images>>
scratchVars == <<temp_dir, cleaned>>
batchVars == <<index, file_list, original_filename, zip_buffer, zip_file, calls, result>>

vars == <<pc, matchVars, inputVars, imageVars, scratchVars, download, filled_docx, template_pos, batchVars>>

(***************************************************************************)
(* Bounds                                                                  *)
(***************************************************************************)
MaxPlaceholders == 3    \* size of the placeholder set given to the matcher
MaxCols == 3            \* number of column names given to the matcher
MaxPieces == 3          \* number of text pieces a template is composed of
MaxFields == 2          \* number of columns of the record that fills a template
MaxRecords == 3         \* number of records of a batch
MaxParagraphs == 2      \* number of paragraphs of a template with image placeholders
MaxCells == 1           \* number of table cells of a template with image placeholders
MaxImages == 2          \* number of images the image handler returns
MaxRefs == 2            \* number of items of a list of image references

(***************************************************************************)
(* Generic helpers                                                         *)
(***************************************************************************)
Range(s) == {s[i] : i \in 1..Len(s)}

SeqsUpTo(S, n) == UNION {[1..k -> S] : k \in 0..n}

Perms(S) == {s \in [1..Cardinality(S) -> S] : Range(s) = S}

RECURSIVE Concat(_)
Concat(ss) == IF ss = <<>> THEN <<>> ELSE Head(ss) \o Concat(Tail(ss))

(***************************************************************************)
(* Python string primitives                                                *)
(***************************************************************************)
LowerTable ==
    [c \in {"A", "B", "C", "D", "E", "F", "G", "H", "I", "J", "K", "L", "M",
            "N", "O", "P", "Q", "R", "S", "T", "U", "V", "W", "X", "Y", "Z"} |->
        CASE c = "A" -> "a" [] c = "B" -> "b" [] c = "C" -> "c" [] c = "D" -> "d"
          [] c = "E" -> "e" [] c = "F" -> "f" [] c = "G" -> "g" [] c = "H" -> "h"
          [] c = "I" -> "i" [] c = "J" -> "j" [] c = "K" -> "k" [] c = "L" -> "l"
          [] c = "M" -> "m" [] c = "N" -> "n" [] c = "O" -> "o" [] c = "P" -> "p"
          [] c = "Q" -> "q" [] c = "R" -> "r" [] c = "S" -> "s" [] c = "T" -> "t"
          [] c = "U" -> "u" [] c = "V" -> "v" [] c = "W" -> "w" [] c = "X" -> "x"
          [] c = "Y" -> "y" [] c = "Z" -> "z"]

\* str.lower()
Lower(s) == [i \in 1..Len(s) |-> IF s[i] \in DOMAIN LowerTable THEN LowerTable[s[i]] ELSE s[i]]

\* text[i:].startswith(pat)
StartsWithAt(text, pat, i) ==
    /\ i + Len(pat) - 1 <= Len(text)
    /\ \A k \in 1..Len(pat) : text[i + k - 1] = pat[k]

\* pat in text
Contains(text, pat) == \E i \in 1..(Len(text) + 1) : StartsWithAt(text, pat, i)

\* text.replace(pat, rep) for a non-empty pat: leftmost, non-overlapping
RECURSIVE ReplaceFrom(_, _, _, _)
ReplaceFrom(text, pat, rep, i) ==
    IF i > Len(text) THEN <<>>
    ELSE IF StartsWithAt(text, pat, i)
         THEN rep \o ReplaceFrom(text, pat, rep, i + Len(pat))
         ELSE <<text[i]>> \o ReplaceFrom(text, pat, rep, i + 1)

StrReplace(text, pat, rep) == ReplaceFrom(text, pat, rep, 1)

(***************************************************************************)
(* DocxHandler.match_placeholders_to_columns                               *)
(***************************************************************************)
\* for col in df_columns: if placeholder.lower() == col.lower(): ... break
RECURSIVE CaseInsensitiveScan(_, _)
CaseInsensitiveScan(placeholder, cols) ==
    IF cols = <<>> THEN [found |-> FALSE, col |-> <<>>]
    ELSE IF Lower(placeholder) = Lower(Head(cols))
         THEN [found |-> TRUE, col |-> Head(cols)]
         ELSE CaseInsensitiveScan(placeholder, Tail(cols))

\* mutant: the `if not found` guard is dropped
MatchOne_NoFoundGuard(placeholder, cols, res) ==
    IF placeholder \in Range(cols)
    THEN [matched |-> (placeholder :> placeholder) @@ res.matched,
          unmatched |-> res.unmatched]
    ELSE LET scan == CaseInsensitiveScan(placeholder, cols) IN
         [matched |-> IF scan.found THEN (placeholder :> scan.col) @@ res.matched
                      ELSE res.matched,
          unmatched |-> Append(res.unmatched, placeholder)]

\* mutant: the exact match is not tried before the case-insensitive scan
MatchOne_NoExactFirst(placeholder, cols, res) ==
    LET scan == CaseInsensitiveScan(placeholder, cols) IN
    IF scan.found
    THEN [matched |-> (placeholder :> scan.col) @@ res.matched,
          unmatched |-> res.unmatched]
    ELSE [matched |-> res.matched,
          unmatched |-> Append(res.unmatched, placeholder)]

\* one iteration of `for placeholder in placeholders`
MatchOne(placeholder, cols, res) ==
    IF placeholder \in Range(cols)
    THEN [matched |-> (placeholder :> placeholder) @@ res.matched,
          unmatched |-> res.unmatched]
    ELSE LET scan == CaseInsensitiveScan(placeholder, cols) IN
         IF scan.found
         THEN [matched |-> (placeholder :> scan.col) @@ res.matched,
               unmatched |-> res.unmatched]
         ELSE [matched |-> res.matched,
               unmatched |-> Append(res.unmatched, placeholder)]

RECURSIVE MatchLoop(_, _, _)
MatchLoop(iter, cols, res) ==
    IF iter = <<>> THEN res
    ELSE MatchLoop(Tail(iter), cols, MatchOne(Head(iter), cols, res))

\* iter is the sequence in which the placeholder set is iterated
match_placeholders_to_columns(iter, cols) ==
    MatchLoop(iter, cols, [matched |-> <<>>, unmatched |-> <<>>])

(***************************************************************************)
(* Inputs of the matcher specification                                     *)
(***************************************************************************)
MatchNames == {<<"a", "b">>, <<"A", "b">>, <<"a", "B">>, <<"c">>, <<"C">>}

MatchPlaceholderSets == {S \in SUBSET MatchNames : Cardinality(S) <= MaxPlaceholders}

NoDoc == [paragraphs |-> <<>>, cells |-> <<>>]

NoDf == [kind |-> "frame", columns |-> <<>>, rows |-> <<>>]

NoResult == [raised |-> FALSE, error |-> <<>>, doc |-> NoDoc]

NoDownload == [kind |-> "none", file_name |-> <<>>, pdf_bytes |-> [pdf |-> NoDoc],
               zip_bytes |-> <<>>, message |-> <<>>]

NoBatchResult == [raised |-> FALSE, error |-> <<>>, zip_bytes |-> <<>>,
                  report_count |-> 0, file_list |-> <<>>]

\* the variables of download_and_encode_images when it is not called
ImagesIdle ==
    /\ images_string = [t |-> "none", v |-> <<>>]
    /\ net = <<>>
    /\ requests = <<>>
    /\ encoded_images = <<>>

\* no temporary file yet, no cleanup yet
ScratchIdle ==
    /\ temp_dir = {}
    /\ cleaned = FALSE

\* the variables of generate_multiple_client_reports before it is called
BatchIdle ==
    /\ index = 0
    /\ file_list = <<>>
    /\ original_filename = <<>>
    /\ zip_buffer = "none"
    /\ zip_file = <<>>
    /\ calls = <<>>
    /\ result = NoBatchResult
    /\ download = NoDownload

InitMatch ==
    /\ pc = "match"
    /\ placeholders \in MatchPlaceholderSets
    /\ order \in Perms(placeholders)
    /\ df_columns \in SeqsUpTo(MatchNames, MaxCols)
    /\ matched = <<>>
    /\ unmatched = <<>>
    /\ template_file = NoDoc
    /\ df = NoDf
    /\ image_handler = FALSE
    /\ image_data_list = <<>>
    /\ filled_docx = NoResult
    /\ today = <<>>
    /\ template_pos = "start"
    /\ BatchIdle
    /\ ImagesIdle
    /\ ScratchIdle

\* matched, unmatched = docx_handler.match_placeholders_to_columns(placeholders, columns)
Match ==
    /\ pc = "match"
    /\ LET res == match_placeholders_to_columns(order, df_columns) IN
        /\ matched' = res.matched
        /\ unmatched' = res.unmatched
    /\ pc' = "matched"
    /\ UNCHANGED <<placeholders, order, df_columns, inputVars, imageVars, scratchVars, download, filled_docx,
                   template_pos, batchVars>>

NextMatch == Match

SpecMatch == InitMatch /\ [][NextMatch]_vars

(***************************************************************************)
(* Claims about match_placeholders_to_columns                              *)
(***************************************************************************)
\* C5: the keys of matched together with the elements of unmatched are
\* exactly the input placeholder set, no placeholder is in both, and none
\* appears twice in unmatched.
C5_Partition ==
    pc = "matched" =>
        /\ (DOMAIN matched) \cup Range(unmatched) = placeholders
        /\ (DOMAIN matched) \cap Range(unmatched) = {}
        /\ \A i, j \in 1..Len(unmatched) : unmatched[i] = unmatched[j] => i = j

C5_Witness ==
    /\ pc = "matched"
    /\ Cardinality(DOMAIN matched) >= 2
    /\ Len(unmatched) >= 1
    /\ \E P \in DOMAIN matched : matched[P] # P

\* indices of the columns that equal P case-insensitively
C6_CaseInsensitive(P) == {i \in 1..Len(df_columns) : Lower(df_columns[i]) = Lower(P)}

C6_First(S) == CHOOSE i \in S : \A j \in S : i <= j

\* C6: each placeholder P resolves to P itself when P is exactly a column
\* name, otherwise to the first column (in column order) equal to P
\* case-insensitively, otherwise P is unmatched; and the matched mapping and
\* the unmatched set are the same for every iteration order of the set.
C6_Resolution ==
    pc = "matched" =>
        /\ \A P \in placeholders :
              IF \E i \in 1..Len(df_columns) : df_columns[i] = P
              THEN P \in DOMAIN matched /\ matched[P] = P
              ELSE IF C6_CaseInsensitive(P) # {}
                   THEN /\ P \in DOMAIN matched
                        /\ matched[P] = df_columns[C6_First(C6_CaseInsensitive(P))]
                   ELSE P \notin DOMAIN matched /\ P \in Range(unmatched)
        /\ \A o \in Perms(placeholders) :
              LET res == match_placeholders_to_columns(o, df_columns) IN
                /\ DOMAIN res.matched = DOMAIN matched
                /\ \A P \in DOMAIN matched : res.matched[P] = matched[P]
                /\ Range(res.unmatched) = Range(unmatched)

C6_Witness ==
    /\ pc = "matched"
    /\ \E P \in placeholders : \E i, j \in 1..Len(df_columns) :
          /\ i < j
          /\ df_columns[j] = P
          /\ df_columns[i] # P
          /\ Lower(df_columns[i]) = Lower(P)
    /\ \E Q \in placeholders :
          /\ Q \notin Range(df_columns)
          /\ Cardinality({df_columns[i] : i \in C6_CaseInsensitive(Q)}) >= 2
    /\ Len(unmatched) >= 1

(***************************************************************************)
(* Scalar values of a record and their conversion by pd.notna and str      *)
(***************************************************************************)
None == [t |-> "none", v |-> <<>>]
NaN == [t |-> "nan", v |-> <<>>]
Str(s) == [t |-> "str", v |-> s]
Num(n) == [t |-> "int", v |-> n]

\* pd.notna(value)
notna(value) == value.t \notin {"none", "nan"}

Digits == <<"0", "1", "2", "3", "4", "5", "6", "7", "8", "9">>

RECURSIVE NatToStr(_)
NatToStr(n) == IF n < 10 THEN <<Digits[n + 1]>>
               ELSE NatToStr(n \div 10) \o <<Digits[(n % 10) + 1]>>

\* str(value)
str(value) ==
    CASE value.t = "str" -> value.v
      [] value.t = "int" -> IF value.v < 0 THEN <<"-">> \o NatToStr(-value.v)
                            ELSE NatToStr(value.v)
      [] value.t = "none" -> <<"N", "o", "n", "e">>
      [] value.t = "nan" -> <<"n", "a", "n">>

(***************************************************************************)
(* DocxHandler.extract_placeholders                                        *)
(***************************************************************************)
\* position of the first "}" at or after i, 0 when there is none
RECURSIVE NextClose(_, _)
NextClose(text, i) ==
    IF i > Len(text) THEN 0
    ELSE IF text[i] = "}" THEN i
    ELSE NextClose(text, i + 1)

\* re.findall(r'\{([^}]+)\}', text): leftmost non-overlapping matches
RECURSIVE FindAllFrom(_, _)
FindAllFrom(text, i) ==
    IF i > Len(text) THEN <<>>
    ELSE IF text[i] = "{"
         THEN LET q == NextClose(text, i + 1) IN
              IF q >= i + 2
              THEN <<SubSeq(text, i + 1, q - 1)>> \o FindAllFrom(text, q + 1)
              ELSE FindAllFrom(text, i + 1)
         ELSE FindAllFrom(text, i + 1)

findall(text) == FindAllFrom(text, 1)

\* mutant: the table cells are not scanned
extract_placeholders_ParagraphsOnly(d) ==
    UNION {Range(findall(d.paragraphs[i])) : i \in 1..Len(d.paragraphs)}

extract_placeholders(d) ==
    UNION ({Range(findall(d.paragraphs[i])) : i \in 1..Len(d.paragraphs)}
           \cup {Range(findall(d.cells[i])) : i \in 1..Len(d.cells)})

(***************************************************************************)
(* DocxHandler.replace_placeholders                                        *)
(***************************************************************************)
Images == <<"I", "m", "a", "g", "e", "s">>
EvidencePhotos == <<"E", "V", "I", "D", "E", "N", "C", "E", " ", "&", " ", "A", "T", "T", "A", "C", "H", "M", "E", "N", "T", "S", " ", "-", " ", "P", "h", "o", "t", "o", "s">>

\* ['Images', 'EVIDENCE & ATTACHMENTS - Photos']
ImagePlaceholders == {Images, EvidencePhotos}

\* f'{{{placeholder}}}'
PlaceholderText(placeholder) == <<"{">> \o placeholder \o <<"}">>

\* mutant: the value is stringified without the null check
StrValue_NoNullCheck(value) == str(value)

\* str(value) if pd.notna(value) else ''
StrValue(value) == IF notna(value) THEN str(value) ELSE <<>>

\* body of `for placeholder, value in data_dict.items()` on a paragraph
ReplaceInParagraphText(text, item, skip_images) ==
    IF skip_images /\ item[1] \in ImagePlaceholders THEN text
    ELSE IF Contains(text, PlaceholderText(item[1]))
         THEN StrReplace(text, PlaceholderText(item[1]), StrValue(item[2]))
         ELSE text

RECURSIVE ReplaceInParagraph(_, _, _)
ReplaceInParagraph(text, items, skip_images) ==
    IF items = <<>> THEN text
    ELSE ReplaceInParagraph(ReplaceInParagraphText(text, Head(items), skip_images),
                            Tail(items), skip_images)

\* body of `for placeholder, value in data_dict.items()` on a table cell
ReplaceInCellText(text, item, skip_images) ==
    IF skip_images /\ item[1] \in ImagePlaceholders THEN text
    ELSE IF Contains(text, PlaceholderText(item[1]))
         THEN StrReplace(text, PlaceholderText(item[1]), StrValue(item[2]))
         ELSE text

RECURSIVE ReplaceInCell(_, _, _)
ReplaceInCell(text, items, skip_images) ==
    IF items = <<>> THEN text
    ELSE ReplaceInCell(ReplaceInCellText(text, Head(items), skip_images),
                       Tail(items), skip_images)

\* every {name} token of the text removed
RECURSIVE ClearTokens(_, _)
ClearTokens(text, i) ==
    IF i > Len(text) THEN <<>>
    ELSE IF text[i] = "{" /\ NextClose(text, i + 1) >= i + 2
         THEN ClearTokens(text, NextClose(text, i + 1) + 1)
         ELSE <<text[i]>> \o ClearTokens(text, i + 1)

\* mutant: tokens left over after the substitution are cleared
replace_placeholders_ClearLeftovers(d, data_dict, skip_images) ==
    [paragraphs |-> [i \in 1..Len(d.paragraphs) |->
                        ClearTokens(ReplaceInParagraph(d.paragraphs[i], data_dict,
                                                       skip_images), 1)],
     cells |-> [i \in 1..Len(d.cells) |->
                        ClearTokens(ReplaceInCell(d.cells[i], data_dict, skip_images), 1)]]

replace_placeholders(d, data_dict, skip_images) ==
    [paragraphs |-> [i \in 1..Len(d.paragraphs) |->
                        ReplaceInParagraph(d.paragraphs[i], data_dict, skip_images)],
     cells |-> [i \in 1..Len(d.cells) |->
                        ReplaceInCell(d.cells[i], data_dict, skip_images)]]

(***************************************************************************)
(* DocxHandler.embed_images                                                *)
(***************************************************************************)
\* str(doc): python-docx's Document defines no __str__, so this is the
\* default object representation, whatever the document contains
StrDoc(d) == <<"<", "d", "o", "c", "x", ".", "d", "o", "c", "u", "m", "e", "n", "t", ".", "D", "o", "c", "u", "m", "e", "n", "t", " ", "o", "b", "j", "e", "c", "t", " ", "a", "t", " ", "0", "x", "0", ">">>

\* the kind of image placeholder embed_images selects, <<>> for none
ImagesPlaceholderOf(d) ==
    IF Contains(StrDoc(d), PlaceholderText(EvidencePhotos)) THEN PlaceholderText(EvidencePhotos)
    ELSE IF Contains(StrDoc(d), PlaceholderText(Images)) THEN PlaceholderText(Images)
    ELSE <<>>

\* data_dict.get(key, default); data_dict is the list of (name, value) items
DictGet(data_dict, key, default) ==
    IF \E c \in 1..Len(data_dict) : data_dict[c][1] = key
    THEN data_dict[CHOOSE c \in 1..Len(data_dict) : data_dict[c][1] = key][2]
    ELSE default

\* `not value`: None, the empty string and 0 are false, NaN is true
Falsy(value) ==
    \/ value.t = "none"
    \/ value.t = "str" /\ value.v = <<>>
    \/ value.t = "int" /\ value.v = 0

\* pd.isna(value)
isna(value) == value.t \in {"none", "nan"}

\* images_value of the selected placeholder kind
ImagesValueOf(images_placeholder, data_dict) ==
    IF images_placeholder = PlaceholderText(EvidencePhotos)
    THEN DictGet(data_dict, EvidencePhotos, Str(<<>>))
    ELSE DictGet(data_dict, Images, Str(<<>>))

\* an image the handler returned; "bad" is one that add_picture rejects
ImageData == {"img1", "img2", "bad"}

\* the content of a paragraph whose only run holds the picture
Picture(img_data) == <<img_data>>

\* f'Image {i+1}', i counted from 0
Caption(i) == <<"I", "m", "a", "g", "e", " ">> \o NatToStr(i + 1)

\* for i, img_data in enumerate(image_data_list): doc.add_paragraph() puts
\* the new paragraph, then the caption paragraph, at the end of the body;
\* when the picture cannot be added the empty paragraph stays
RECURSIVE AddImageParagraphs(_, _, _)
AddImageParagraphs(paragraphs, images, i) ==
    IF i >= Len(images) THEN paragraphs
    ELSE AddImageParagraphs(
             IF images[i + 1] = "bad"
             THEN Append(paragraphs, <<>>)
             ELSE paragraphs \o <<Picture(images[i + 1]), Caption(i)>>,
             images, i + 1)

\* the first index from i on whose text contains the token, 0 if none
RECURSIVE FirstWith(_, _, _)
FirstWith(texts, token, i) ==
    IF i > Len(texts) THEN 0
    ELSE IF Contains(texts[i], token) THEN i
    ELSE FirstWith(texts, token, i + 1)

\* the loop over doc.paragraphs, left by `break` at the first occurrence
EmbedInParagraphs(d, token, images) ==
    LET p == FirstWith(d.paragraphs, token, 1) IN
    IF p = 0 THEN d
    ELSE [d EXCEPT !.paragraphs =
             AddImageParagraphs(
                 [d.paragraphs EXCEPT ![p] = StrReplace(d.paragraphs[p], token, <<>>)],
                 images, 0)]

\* para = cell.add_paragraph(); run.add_picture(...): the cell gains one
\* paragraph per image, holding the picture when it could be added
RECURSIVE AddImagesToCell(_, _, _)
AddImagesToCell(cell, images, i) ==
    IF i >= Len(images) THEN cell
    ELSE AddImagesToCell(
             IF images[i + 1] = "bad"
             THEN cell \o <<"\n">>
             ELSE cell \o <<"\n">> \o Picture(images[i + 1]),
             images, i + 1)

\* the loop over the cells of doc.tables, left by `return doc` at the first
\* occurrence; it runs whether or not a paragraph held the token
EmbedInCells(d, token, images) ==
    LET c == FirstWith(d.cells, token, 1) IN
    IF c = 0 THEN d
    ELSE [d EXCEPT !.cells[c] =
             AddImagesToCell(StrReplace(d.cells[c], token, <<>>), images, 0)]

\* images: what self.image_handler.download_and_encode_images returns for
\* str(images_value)
embed_images(d, data_dict, handler, images) ==
    IF ~handler THEN d
    ELSE LET images_placeholder == ImagesPlaceholderOf(d) IN
         IF images_placeholder = <<>> THEN d
         ELSE LET images_value == ImagesValueOf(images_placeholder, data_dict) IN
              IF Falsy(images_value) \/ isna(images_value) THEN d
              ELSE IF images = <<>> THEN d
              ELSE EmbedInCells(EmbedInParagraphs(d, images_placeholder, images),
                                images_placeholder, images)

(***************************************************************************)
(* DocxHandler.generate_from_template                                      *)
(***************************************************************************)
\* df.iloc[row_index].to_dict(), row_index counted from 0
to_dict(frame, row_index) ==
    [c \in 1..Len(frame.columns) |-> <<frame.columns[c], frame.rows[row_index + 1][c]>>]

\* fill_ok: python-docx loads and saves the document without raising
generate_from_template(template, frame, row_index, handler, images, fill_ok) ==
    IF ~fill_ok
    THEN [raised |-> TRUE,
          error |-> <<"Error generating document from template: ", "filler failure">>,
          doc |-> NoDoc]
    ELSE IF Len(frame.rows) = 0
    THEN [raised |-> TRUE,
          error |-> <<"Error generating document from template: ", "DataFrame is empty">>,
          doc |-> NoDoc]
    ELSE LET row == IF row_index >= Len(frame.rows) THEN 0 ELSE row_index
             data_dict == to_dict(frame, row)
             replaced == replace_placeholders(template, data_dict, TRUE)
         IN [raised |-> FALSE, error |-> <<>>,
             doc |-> IF handler THEN embed_images(replaced, data_dict, handler, images)
                     ELSE replaced]

(***************************************************************************)
(* Inputs of the filler specification                                      *)
(***************************************************************************)
\* a template text is a concatenation of at most MaxPieces of these
Pieces == {<<"{">>, <<"a">>, <<"{", "a", "}">>, <<"{", "b", "}">>}

\* documents with one paragraph and one table cell, one of them holding text
Docs ==
    UNION {{[paragraphs |-> <<Concat(ps)>>, cells |-> <<<<>>>>],
            [paragraphs |-> <<<<>>>>, cells |-> <<Concat(ps)>>]}
           : ps \in SeqsUpTo(Pieces, MaxPieces)}

FieldNames == {<<"a">>, <<"A">>, <<"b">>}

Values == {None, NaN, Str(<<>>), Str(<<"{", "b", "}">>), Num(7)}

\* lists of distinct column names
ColumnLists == {cs \in SeqsUpTo(FieldNames, MaxFields) :
                   \A i, j \in 1..Len(cs) : cs[i] = cs[j] => i = j}

InitFill ==
    /\ pc = "fill"
    /\ template_file \in Docs
    /\ \E cs \in ColumnLists : \E row \in [1..Len(cs) -> Values] :
          df = [kind |-> "frame", columns |-> cs, rows |-> <<row>>]
    /\ image_handler = TRUE
    /\ image_data_list = <<>>
    /\ today = <<>>
    /\ template_pos = "start"
    /\ BatchIdle
    /\ ImagesIdle
    /\ ScratchIdle
    /\ placeholders = {}
    /\ order = <<>>
    /\ df_columns = <<>>
    /\ matched = <<>>
    /\ unmatched = <<>>
    /\ filled_docx = NoResult

\* filled_docx = self.generate_from_template(template_file, df, row_index)
Fill ==
    /\ pc = "fill"
    /\ filled_docx' = generate_from_template(template_file, df, 0, image_handler,
                                              image_data_list, TRUE)
    /\ template_pos' = "end"
    /\ pc' = "filled"
    /\ UNCHANGED <<matchVars, inputVars, imageVars, scratchVars, download, batchVars>>

NextFill == Fill

SpecFill == InitFill /\ [][NextFill]_vars

(***************************************************************************)
(* The extraction specification: templates with text in a paragraph and    *)
(* in a table cell                                                         *)
(***************************************************************************)
ExtractDocs ==
    {[paragraphs |-> <<Concat(ps)>>, cells |-> <<Concat(cs)>>] :
        ps \in SeqsUpTo(Pieces, MaxPieces), cs \in SeqsUpTo(Pieces, MaxPieces)}

InitExtract ==
    /\ pc = "extract"
    /\ template_file \in ExtractDocs
    /\ placeholders = {}
    /\ order = <<>>
    /\ df_columns = <<>>
    /\ matched = <<>>
    /\ unmatched = <<>>
    /\ df = NoDf
    /\ image_handler = TRUE
    /\ image_data_list = <<>>
    /\ today = <<>>
    /\ template_pos = "start"
    /\ filled_docx = NoResult
    /\ BatchIdle
    /\ ImagesIdle
    /\ ScratchIdle

\* placeholders = docx_handler.extract_placeholders(uploaded_template)
\* uploaded_template.seek(0)
Extract ==
    /\ pc = "extract"
    /\ placeholders' = extract_placeholders(template_file)
    /\ template_pos' = "start"
    /\ pc' = "extracted"
    /\ UNCHANGED <<order, df_columns, matched, unmatched, inputVars, imageVars, scratchVars, download, filled_docx,
                   batchVars>>

NextExtract == Extract

SpecExtract == InitExtract /\ [][NextExtract]_vars

(***************************************************************************)
(* Inputs of the image specification: templates with image placeholders,   *)
(* records with image references, and the images the handler returns       *)
(***************************************************************************)
EmbedTexts == {<<"a">>, PlaceholderText(Images), PlaceholderText(EvidencePhotos)}

EmbedDocs ==
    {[paragraphs |-> ps, cells |-> cs] :
        ps \in SeqsUpTo(EmbedTexts, MaxParagraphs), cs \in SeqsUpTo(EmbedTexts, MaxCells)}

\* a null, an empty cell, or a list of image references
ImageValues == {None, NaN, Str(<<>>), Str(<<"u", "1", ",", "u", "2">>)}

EmbedColumnLists == {<<>>, <<Images>>, <<EvidencePhotos>>, <<Images, EvidencePhotos>>}

InitEmbed ==
    /\ pc = "fill"
    /\ template_file \in EmbedDocs
    /\ \E cs \in EmbedColumnLists : \E row \in [1..Len(cs) -> ImageValues] :
          df = [kind |-> "frame", columns |-> cs, rows |-> <<row>>]
    /\ image_handler \in BOOLEAN
    /\ image_data_list \in SeqsUpTo(ImageData, MaxImages)
    /\ today = <<>>
    /\ template_pos = "start"
    /\ BatchIdle
    /\ ImagesIdle
    /\ ScratchIdle
    /\ placeholders = {}
    /\ order = <<>>
    /\ df_columns = <<>>
    /\ matched = <<>>
    /\ unmatched = <<>>
    /\ filled_docx = NoResult

NextEmbed == Fill

SpecEmbed == InitEmbed /\ [][NextEmbed]_vars

(***************************************************************************)
(* Claims about replace_placeholders / generate_from_template              *)
(***************************************************************************)
\* some sequence of the elements of S
RECURSIVE SetToSeq(_)
SetToSeq(S) == IF S = {} THEN <<>>
               ELSE LET x == CHOOSE x \in S : TRUE IN <<x>> \o SetToSeq(S \ {x})

\* the columns of the record that filled the template
FillColumns == df.columns

\* what the application reports for the template and the record's columns
FillMatch == match_placeholders_to_columns(SetToSeq(extract_placeholders(template_file)),
                                           FillColumns)

\* the texts of a document: paragraphs, then table cells
Texts(d) == d.paragraphs \o d.cells

HasBrace(text) == \E i \in 1..Len(text) : text[i] \in {"{", "}"}

\* C1: for a template with only non-image placeholders, after filling no
\* literal {P} remains in any paragraph or table cell for any placeholder P
\* that match_placeholders_to_columns reports as matched (exactly or
\* case-insensitively).
C1_NoMatchedTokenRemains ==
    (pc = "filled" /\ ~filled_docx.raised
        /\ extract_placeholders(template_file) \cap ImagePlaceholders = {}) =>
        \A P \in DOMAIN FillMatch.matched :
            \A i \in 1..Len(Texts(filled_docx.doc)) :
                ~Contains(Texts(filled_docx.doc)[i], PlaceholderText(P))

\* the {U} tokens of a text, in order, for the unmatched placeholders U in Us
RECURSIVE C2_Tokens(_, _)
C2_Tokens(names, Us) ==
    IF names = <<>> THEN <<>>
    ELSE IF Head(names) \in Us
         THEN <<PlaceholderText(Head(names))>> \o C2_Tokens(Tail(names), Us)
         ELSE C2_Tokens(Tail(names), Us)

\* position of the first occurrence of pat in text at or after i, 0 for none
RECURSIVE C2_Find(_, _, _)
C2_Find(text, pat, i) ==
    IF i + Len(pat) - 1 > Len(text) THEN 0
    ELSE IF StartsWithAt(text, pat, i) THEN i
    ELSE C2_Find(text, pat, i + 1)

\* the tokens occur in text, in this order and without overlap, from i on
RECURSIVE C2_Kept(_, _, _)
C2_Kept(toks, text, i) ==
    IF toks = <<>> THEN TRUE
    ELSE LET at == C2_Find(text, Head(toks), i) IN
         at # 0 /\ C2_Kept(Tail(toks), text, at + Len(Head(toks)))

C2_Unmatched == Range(FillMatch.unmatched)

\* C2 as stated: every {U} token of an unmatched placeholder U is textually
\* unchanged by the fill, in every paragraph and every table cell.
C2_UnmatchedUnchanged ==
    (pc = "filled" /\ ~filled_docx.raised) =>
        \A i \in 1..Len(Texts(template_file)) :
            C2_Kept(C2_Tokens(findall(Texts(template_file)[i]), C2_Unmatched),
                    Texts(filled_docx.doc)[i], 1)

\* C2 amended: when no column name contains a brace, every {U} token of an
\* unmatched placeholder U that contains no "{" is textually unchanged by the
\* fill, in every paragraph and every table cell.
C2_UnmatchedPlainUnchanged ==
    (pc = "filled" /\ ~filled_docx.raised
        /\ \A c \in 1..Len(FillColumns) : ~HasBrace(FillColumns[c])) =>
        \A i \in 1..Len(Texts(template_file)) :
            C2_Kept(C2_Tokens(findall(Texts(template_file)[i]),
                              {U \in C2_Unmatched : ~HasBrace(U)}),
                    Texts(filled_docx.doc)[i], 1)

\* an unmatched plain token stands next to a matched one that was substituted
C2_Witness ==
    /\ pc = "filled" /\ ~filled_docx.raised
    /\ \E i \in 1..Len(Texts(template_file)) :
         LET names == findall(Texts(template_file)[i]) IN
           /\ \E k \in 1..Len(names) : names[k] \in C2_Unmatched /\ ~HasBrace(names[k])
           /\ \E k \in 1..Len(names) : names[k] \in Range(FillColumns)
           /\ Texts(filled_docx.doc)[i] # Texts(template_file)[i]

\* the value of column c in the record that filled the template
C3_Value(c) == df.rows[1][c]

C3_Blank(value) == value \in {None, NaN, Str(<<>>)}

\* C3: a {F} token whose field value is missing, null/NaN or empty is
\* substituted by the empty string: a text "pre{F}post" becomes "prepost",
\* and no filled text contains "None" or "nan".
C3_BlankIsEmpty ==
    (pc = "filled" /\ ~filled_docx.raised) =>
        /\ \A i \in 1..Len(Texts(filled_docx.doc)) :
              /\ ~Contains(Texts(filled_docx.doc)[i], <<"N", "o", "n", "e">>)
              /\ ~Contains(Texts(filled_docx.doc)[i], <<"n", "a", "n">>)
        /\ \A c \in 1..Len(FillColumns) : \A i \in 1..Len(Texts(template_file)) :
              LET text == Texts(template_file)[i]
                  tok == PlaceholderText(FillColumns[c])
              IN \A k \in 1..Len(text) :
                    (/\ C3_Blank(C3_Value(c))
                     /\ FillColumns[c] \notin ImagePlaceholders
                     /\ StartsWithAt(text, tok, k)
                     /\ ~HasBrace(SubSeq(text, 1, k - 1))
                     /\ ~HasBrace(SubSeq(text, k + Len(tok), Len(text))))
                    => Texts(filled_docx.doc)[i] =
                         SubSeq(text, 1, k - 1) \o SubSeq(text, k + Len(tok), Len(text))

\* a token with a None value and one with a NaN value were filled in one
\* table cell, next to plain text
C3_Witness ==
    /\ pc = "filled" /\ ~filled_docx.raised
    /\ \E c \in 1..Len(FillColumns) :
         /\ C3_Value(c) = None
         /\ Contains(template_file.cells[1], PlaceholderText(FillColumns[c]))
    /\ \E c \in 1..Len(FillColumns) :
         /\ C3_Value(c) = NaN
         /\ Contains(template_file.cells[1], PlaceholderText(FillColumns[c]))
    /\ filled_docx.doc.cells[1] = <<"a">>

\* a text whose braces form {name} tokens only, names without braces
RECURSIVE C4_WellFormed(_, _)
C4_WellFormed(text, i) ==
    IF i > Len(text) THEN TRUE
    ELSE IF text[i] = "}" THEN FALSE
    ELSE IF text[i] = "{"
         THEN LET q == NextClose(text, i + 1) IN
              /\ q >= i + 2
              /\ ~HasBrace(SubSeq(text, i + 1, q - 1))
              /\ C4_WellFormed(text, q + 1)
         ELSE C4_WellFormed(text, i + 1)

C4_Fields == {c \in 1..Len(FillColumns) : FillColumns[c] \notin ImagePlaceholders}

C4_ValueOf(name) == LET c == CHOOSE c \in C4_Fields : FillColumns[c] = name
                    IN IF C3_Blank(C3_Value(c)) THEN <<>> ELSE str(C3_Value(c))

\* every {F} of a field F replaced by its value, everything else kept
RECURSIVE C4_Expected(_, _)
C4_Expected(text, i) ==
    IF i > Len(text) THEN <<>>
    ELSE IF text[i] = "{"
         THEN LET q == NextClose(text, i + 1)
                  name == SubSeq(text, i + 1, q - 1)
              IN (IF \E c \in C4_Fields : FillColumns[c] = name
                  THEN C4_ValueOf(name)
                  ELSE SubSeq(text, i, q)) \o C4_Expected(text, q + 1)
         ELSE <<text[i]>> \o C4_Expected(text, i + 1)

\* C4: for every field F of the record other than the reserved image
\* fields, every literal occurrence of {F} in every paragraph and table cell
\* is replaced by the stringified value of F, and the text before and after
\* each occurrence is unchanged.
C4_ReplacedInPlace ==
    (pc = "filled" /\ ~filled_docx.raised) =>
        \A i \in 1..Len(Texts(template_file)) :
            C4_WellFormed(Texts(template_file)[i], 1) =>
                Texts(filled_docx.doc)[i] = C4_Expected(Texts(template_file)[i], 1)

(***************************************************************************)
(* DocxHandler.convert_docx_to_pdf and DocxHandler.generate_client_report  *)
(***************************************************************************)
\* temp_docx, temp_pdf: the files of the conversion in tempfile.gettempdir()
temp_docx == [dir |-> "tmp", name |-> "temp_report.docx"]

temp_pdf == [dir |-> "tmp", name |-> "temp_report.pdf"]

\* the external renderer either produces the PDF of the document or fails
\* temp: the temporary files left behind. When convert(temp_docx, temp_pdf)
\* succeeds both files are removed; when it raises, temp_docx has been
\* written, no PDF has been produced, and the removal is skipped
convert_docx_to_pdf(docx, convert_ok) ==
    IF convert_ok
    THEN [raised |-> FALSE, error |-> <<>>, pdf_bytes |-> [pdf |-> docx],
          temp |-> ({temp_docx, temp_pdf} \ {temp_docx}) \ {temp_pdf}]
    ELSE [raised |-> TRUE,
          error |-> <<"Error converting DOCX to PDF: ", "renderer failure",
                      ". Make sure Microsoft Word is installed on Windows.">>,
          pdf_bytes |-> [pdf |-> NoDoc], temp |-> {temp_docx}]

\* mutant: a failed conversion is swallowed and an empty PDF is returned
generate_client_report_SwallowError(template, frame, row_index, handler, images, fill_ok, convert_ok) ==
    LET filled == generate_from_template(template, frame, row_index, handler,
                                         images, fill_ok) IN
    IF filled.raised
    THEN [raised |-> TRUE,
          error |-> <<"Error generating client report: ">> \o filled.error,
          pdf_bytes |-> [pdf |-> NoDoc], temp |-> {}]
    ELSE [raised |-> FALSE, error |-> <<>>,
          pdf_bytes |-> convert_docx_to_pdf(filled.doc, convert_ok).pdf_bytes,
          temp |-> convert_docx_to_pdf(filled.doc, convert_ok).temp]

generate_client_report(template, frame, row_index, handler, images, fill_ok, convert_ok) ==
    LET filled == generate_from_template(template, frame, row_index, handler,
                                         images, fill_ok) IN
    IF filled.raised
    THEN [raised |-> TRUE,
          error |-> <<"Error generating client report: ">> \o filled.error,
          pdf_bytes |-> [pdf |-> NoDoc], temp |-> {}]
    ELSE LET converted == convert_docx_to_pdf(filled.doc, convert_ok) IN
         IF converted.raised
         THEN [raised |-> TRUE,
               error |-> <<"Error generating client report: ">> \o converted.error,
               pdf_bytes |-> [pdf |-> NoDoc], temp |-> converted.temp]
         ELSE converted

(***************************************************************************)
(* DocxHandler.generate_multiple_client_reports: filename derivation       *)
(***************************************************************************)
SiteNameColumn == <<"S", "i", "t", "e", " ", "N", "a", "m", "e">>
DateColumn == <<"D", "a", "t", "e">>

\* df.iloc[row_index].get(key, default), row_index counted from 0
SeriesGet(frame, row_index, key, default) ==
    IF \E c \in 1..Len(frame.columns) : frame.columns[c] = key
    THEN frame.rows[row_index + 1][CHOOSE c \in 1..Len(frame.columns) : frame.columns[c] = key]
    ELSE default

\* the character class [<>:"/\\|?*]
IllegalChars == {"<", ">", ":", "\"", "/", "\\", "|", "?", "*"}

\* re.sub(r'[<>:"/\\|?*]', '_', s)
SubIllegal(s) == [i \in 1..Len(s) |-> IF s[i] \in IllegalChars THEN "_" ELSE s[i]]

Whitespace == {" ", "\t", "\n", "\r"}

RECURSIVE LStrip(_)
LStrip(s) == IF s # <<>> /\ Head(s) \in Whitespace THEN LStrip(Tail(s)) ELSE s

RECURSIVE RStrip(_)
RStrip(s) == IF s # <<>> /\ s[Len(s)] \in Whitespace
             THEN RStrip(SubSeq(s, 1, Len(s) - 1)) ELSE s

\* mutant: only leading whitespace is removed
Strip_LeftOnly(s) == LStrip(s)

\* str.strip()
Strip(s) == RStrip(LStrip(s))

\* site_name = df.iloc[index].get('Site Name', f'Site_{index+1}')
\* clean_site_name = re.sub(..., '_', str(site_name)).strip()
CleanSiteName(frame, idx) ==
    LET site_name == SeriesGet(frame, idx, SiteNameColumn,
                               Str(<<"S", "i", "t", "e", "_">> \o NatToStr(idx + 1)))
    IN Strip(SubIllegal(str(site_name)))

\* date_str = df.iloc[index].get('Date', now); normalised when not null
DateStr(frame, idx, now) ==
    LET date_str == SeriesGet(frame, idx, DateColumn, Str(now)) IN
    IF notna(date_str) THEN StrReplace(str(date_str), <<"/">>, <<"-">>) ELSE now

\* f"{clean_site_name}_{date_str}_Report.pdf"
ComposeFilename(clean_site_name, date_str) ==
    clean_site_name \o <<"_">> \o date_str \o <<"_", "R", "e", "p", "o", "r", "t", ".", "p", "d", "f">>

\* f"{clean_site_name}_{date_str}_Report_{counter}.pdf"
SuffixedFilename(clean_site_name, date_str, counter) ==
    clean_site_name \o <<"_">> \o date_str \o <<"_", "R", "e", "p", "o", "r", "t", "_">> \o NatToStr(counter) \o <<".", "p", "d", "f">>

\* mutant: `if` instead of `while`, the suffixed name is not checked again
AvoidDuplicate_IfOnce(filename, clean_site_name, date_str, counter, names) ==
    IF filename \in Range(names)
    THEN SuffixedFilename(clean_site_name, date_str, counter)
    ELSE filename

\* mutant: the counter is incremented before it is used
RECURSIVE AvoidDuplicate_IncrementFirst(_, _, _, _, _)
AvoidDuplicate_IncrementFirst(filename, clean_site_name, date_str, counter, names) ==
    IF filename \in Range(names)
    THEN AvoidDuplicate_IncrementFirst(
             SuffixedFilename(clean_site_name, date_str, counter + 1),
             clean_site_name, date_str, counter + 1, names)
    ELSE filename

\* while filename in file_list: filename = ..._{counter}.pdf; counter += 1
RECURSIVE AvoidDuplicate(_, _, _, _, _)
AvoidDuplicate(filename, clean_site_name, date_str, counter, names) ==
    IF filename \in Range(names)
    THEN AvoidDuplicate(SuffixedFilename(clean_site_name, date_str, counter),
                        clean_site_name, date_str, counter + 1, names)
    ELSE filename

(***************************************************************************)
(* DocxHandler.generate_multiple_client_reports: the call                  *)
(***************************************************************************)
BatchError(parts) == [raised |-> TRUE, error |-> parts, zip_bytes |-> <<>>,
                      report_count |-> 0, file_list |-> <<>>]

\* mutant: an empty DataFrame passes the validation
ValidateInputs_NoEmptyCheck(frame) ==
    IF frame.kind = "none"
    THEN <<"DataFrame is None. Please ensure data is loaded and filtered correctly.">>
    ELSE IF frame.kind = "nolen"
    THEN <<"Invalid DataFrame type: ", "type(df)", ". Expected pandas DataFrame.">>
    ELSE <<>>

\* the message of the ValueError the validation raises, <<>> when it passes
ValidateInputs(frame) ==
    IF frame.kind = "none"
    THEN <<"DataFrame is None. Please ensure data is loaded and filtered correctly.">>
    ELSE IF frame.kind = "nolen"
    THEN <<"Invalid DataFrame type: ", "type(df)", ". Expected pandas DataFrame.">>
    ELSE IF Len(frame.rows) = 0
    THEN <<"DataFrame is empty. No records to generate reports for.">>
    ELSE <<>>

\* except Exception as e: the message of the Exception raised instead of e
BatchExcept(frame, e) ==
    <<"Error generating multiple client reports: ">> \o e \o
    (IF frame.kind = "none" THEN <<" | DataFrame is None">>
     ELSE IF frame.kind = "nolen" THEN <<" | DataFrame type issue: ", "type(df)">>
     ELSE <<>>)

\* mutant: the template stream is left where the last read ended
SeekStart_NoSeek(pos) == pos

\* if hasattr(template_file, 'seek'): template_file.seek(0); the template
\* is the uploaded file object, which has seek
SeekStart(pos) == "start"

\* mutant: the entry is put in front of the entries written before
ZipWritestr_Prepend(zip, filename, pdf_bytes) == <<<<filename, pdf_bytes>>>> \o zip

\* zip_file.writestr(filename, pdf_bytes)
ZipWritestr(zip, filename, pdf_bytes) == Append(zip, <<filename, pdf_bytes>>)

\* input validation, then zip_buffer = BytesIO(); file_list = []
BatchValidate ==
    /\ pc = "batch"
    /\ LET e == ValidateInputs(df) IN
        IF e # <<>>
        THEN /\ result' = BatchError(BatchExcept(df, e))
             /\ pc' = "raised"
             /\ zip_buffer' = zip_buffer
        ELSE /\ result' = result
             /\ pc' = "loop"
             /\ zip_buffer' = "open"
    /\ index' = 0
    /\ file_list' = <<>>
    /\ zip_file' = <<>>
    /\ UNCHANGED <<matchVars, inputVars, imageVars, scratchVars, download, filled_docx, template_pos, original_filename,
                   calls>>

\* one iteration of `for index in range(len(df))`
BatchRecord ==
    /\ pc = "loop"
    /\ index < Len(df.rows)
    /\ \E fill_ok, convert_ok \in BOOLEAN :
        LET clean_site_name == CleanSiteName(df, index)
            date_str == DateStr(df, index, today)
            composed == ComposeFilename(clean_site_name, date_str)
            filename == AvoidDuplicate(composed, clean_site_name, date_str, 1, file_list)
            read_at == SeekStart(template_pos)
            report == generate_client_report(template_file, df, index, image_handler,
                                             image_data_list, fill_ok, convert_ok)
        IN /\ original_filename' = composed
           /\ file_list' = Append(file_list, filename)
           /\ template_pos' = "end"
           /\ calls' = Append(calls, [row_index |-> index, read_at |-> read_at,
                                      filled |-> fill_ok,
                                      converted |-> fill_ok /\ convert_ok])
           /\ temp_dir' = temp_dir \cup report.temp
           /\ IF report.raised
              THEN /\ result' = BatchError(BatchExcept(df, report.error))
                   /\ pc' = "raised"
                   /\ zip_buffer' = "closed"
                   /\ UNCHANGED <<index, zip_file>>
              ELSE /\ zip_file' = ZipWritestr(zip_file, filename, report.pdf_bytes)
                   /\ index' = index + 1
                   /\ UNCHANGED <<pc, result, zip_buffer>>
    /\ UNCHANGED <<matchVars, inputVars, imageVars, cleaned, download, filled_docx>>

\* return zip_buffer.getvalue(), len(df), file_list
BatchReturn ==
    /\ pc = "loop"
    /\ index = Len(df.rows)
    /\ result' = [raised |-> FALSE, error |-> <<>>, zip_bytes |-> zip_file,
                  report_count |-> Len(df.rows), file_list |-> file_list]
    /\ zip_buffer' = "closed"
    /\ pc' = "returned"
    /\ UNCHANGED <<matchVars, inputVars, imageVars, scratchVars, download, filled_docx, template_pos, index,
                   file_list, original_filename, zip_file, calls>>

(***************************************************************************)
(* Inputs of the batch specification                                       *)
(***************************************************************************)
SiteValues == {Str(<<"D", "L", "F", " ", "S", "C", "O", "-", "8", "4">>), Str(<<" ", "D", "L", "F", " ", "S", "C", "O", "-", "8", "4", "/", "B", " ">>),
               Str(<<"<", ">", ":", "\"", "\\", "|", "?", "*">>), NaN}

DateValues == {Str(<<"2", "0", "2", "4", "/", "0", "1", "/", "1", "5">>), Str(<<"B", "_", "2", "0", "2", "4", "/", "0", "1", "/", "1", "5">>), NaN}

Todays == {<<"2", "0", "2", "4", "-", "0", "1", "-", "1", "5">>}

BatchColumnLists == {<<SiteNameColumn, DateColumn>>, <<DateColumn>>, <<SiteNameColumn>>, <<>>}

ColumnValues(column) == IF column = SiteNameColumn THEN SiteValues ELSE DateValues

BatchRows(cs) == {row \in [1..Len(cs) -> SiteValues \cup DateValues] :
                     \A c \in 1..Len(cs) : row[c] \in ColumnValues(cs[c])}

BatchTemplate == [paragraphs |-> <<PlaceholderText(SiteNameColumn)>>,
                  cells |-> <<PlaceholderText(DateColumn)>>]

InitBatch ==
    /\ pc = "batch"
    /\ template_file = BatchTemplate
    /\ \/ \E cs \in BatchColumnLists : \E rows \in SeqsUpTo(BatchRows(cs), MaxRecords) :
             df = [kind |-> "frame", columns |-> cs, rows |-> rows]
       \/ df \in {[kind |-> k, columns |-> <<>>, rows |-> <<>>] : k \in {"none", "nolen"}}
    /\ image_handler = TRUE
    /\ image_data_list = <<>>
    /\ today \in Todays
    /\ template_pos = "start"
    /\ placeholders = {}
    /\ order = <<>>
    /\ df_columns = <<>>
    /\ matched = <<>>
    /\ unmatched = <<>>
    /\ filled_docx = NoResult
    /\ BatchIdle
    /\ ImagesIdle
    /\ ScratchIdle

NextBatch ==
    \/ BatchValidate
    \/ BatchRecord
    \/ BatchReturn

SpecBatch == InitBatch /\ [][NextBatch]_vars

\* Date cells that carry a time of day, as str() of a timestamp does
TimedDateValues ==
    {Str(<<"2", "0", "2", "4", "-", "0", "1", "-", "1", "5", " ", "1", "0", ":", "3", "0", ":", "0", "0">>),
     Str(<<"2", "0", "2", "4", "/", "0", "1", "/", "1", "5">>), NaN}

TimedRows ==
    {<<site, date>> : site \in {Str(<<"D", "L", "F", " ", "S", "C", "O", "-", "8", "4">>),
                                Str(<<"<", ">", ":", "\"", "\\", "|", "?", "*">>)},
                      date \in TimedDateValues}

\* the batch on a table whose Date column may carry a time of day
InitBatchTimed ==
    /\ pc = "batch"
    /\ template_file = BatchTemplate
    /\ \E rows \in SeqsUpTo(TimedRows, MaxRecords) :
          df = [kind |-> "frame", columns |-> <<SiteNameColumn, DateColumn>>, rows |-> rows]
    /\ image_handler = TRUE
    /\ image_data_list = <<>>
    /\ today \in Todays
    /\ template_pos = "start"
    /\ placeholders = {}
    /\ order = <<>>
    /\ df_columns = <<>>
    /\ matched = <<>>
    /\ unmatched = <<>>
    /\ filled_docx = NoResult
    /\ BatchIdle
    /\ ImagesIdle
    /\ ScratchIdle

SpecBatchTimed == InitBatchTimed /\ [][NextBatch]_vars

(***************************************************************************)
(* ImageHandler (src/utils/image_handler.py)                               *)
(***************************************************************************)
\* the character class [a-zA-Z0-9_-]
IdChars ==
    {"a", "b", "c", "d", "e", "f", "g", "h", "i", "j", "k", "l", "m",
     "n", "o", "p", "q", "r", "s", "t", "u", "v", "w", "x", "y", "z",
     "A", "B", "C", "D", "E", "F", "G", "H", "I", "J", "K", "L", "M",
     "N", "O", "P", "Q", "R", "S", "T", "U", "V", "W", "X", "Y", "Z",
     "0", "1", "2", "3", "4", "5", "6", "7", "8", "9", "_", "-"}

\* the longest run of identifier characters that starts at position i
RECURSIVE IdRun(_, _)
IdRun(url, i) ==
    IF i <= Len(url) /\ url[i] \in IdChars THEN <<url[i]>> \o IdRun(url, i + 1) ELSE <<>>

\* re.search(prefix + '([a-zA-Z0-9_-]+)', url).group(1) from position i on,
\* <<>> when there is no match
RECURSIVE SearchId(_, _, _)
SearchId(url, prefix, i) ==
    IF i > Len(url) THEN <<>>
    ELSE IF StartsWithAt(url, prefix, i) /\ IdRun(url, i + Len(prefix)) # <<>>
    THEN IdRun(url, i + Len(prefix))
    ELSE SearchId(url, prefix, i + 1)

\* mutant: the id= pattern is tried before the /d/ pattern
extract_drive_file_id_IdFirst(url) ==
    IF SearchId(url, <<"i", "d", "=">>, 1) # <<>> THEN SearchId(url, <<"i", "d", "=">>, 1)
    ELSE IF SearchId(url, <<"/", "d", "/">>, 1) # <<>> THEN SearchId(url, <<"/", "d", "/">>, 1)
    ELSE SearchId(url, <<"/", "f", "i", "l", "e", "/", "d", "/">>, 1)

\* the patterns are tried in order, the first match wins; <<>> is None
extract_drive_file_id(url) ==
    IF SearchId(url, <<"/", "d", "/">>, 1) # <<>> THEN SearchId(url, <<"/", "d", "/">>, 1)
    ELSE IF SearchId(url, <<"i", "d", "=">>, 1) # <<>> THEN SearchId(url, <<"i", "d", "=">>, 1)
    ELSE SearchId(url, <<"/", "f", "i", "l", "e", "/", "d", "/">>, 1)

DriveHost == <<"d", "r", "i", "v", "e", ".", "g", "o", "o", "g", "l", "e", ".", "c", "o", "m">>

DirectDownloadPrefix ==
    <<"h", "t", "t", "p", "s", ":", "/", "/">> \o DriveHost
    \o <<"/", "u", "c", "?", "e", "x", "p", "o", "r", "t", "=", "d", "o", "w", "n", "l", "o", "a", "d", "&", "i", "d", "=">>

\* <<>> is None
get_direct_download_url(drive_url) ==
    LET file_id == extract_drive_file_id(drive_url) IN
    IF file_id # <<>> THEN DirectDownloadPrefix \o file_id ELSE <<>>

\* what the network can answer to one request: an image, an image that
\* cannot be re-encoded, content that is no image, a timeout, an HTTP error
Outcomes == {"image", "unencodable", "not_image", "timeout", "http_error"}

\* response.content of an image served at download_url
Content(download_url) == <<"content:">> \o download_url

\* mutant: a request that failed is sent a second time
download_image_Retry(url, outcome) ==
    LET download_url == IF Contains(url, DriveHost) THEN get_direct_download_url(url)
                        ELSE url
    IN IF download_url = <<>>
       THEN [requested |-> <<>>, image_data |-> <<>>]
       ELSE [requested |-> IF outcome \in {"timeout", "http_error"}
                           THEN <<download_url, download_url>> ELSE <<download_url>>,
             image_data |-> IF outcome \in {"image", "unencodable"}
                            THEN Content(download_url) ELSE <<>>]

\* requested: the URLs passed to requests.get; image_data: <<>> is None
download_image(url, outcome) ==
    LET download_url == IF Contains(url, DriveHost) THEN get_direct_download_url(url)
                        ELSE url
    IN IF download_url = <<>>
       THEN [requested |-> <<>>, image_data |-> <<>>]
       ELSE [requested |-> <<download_url>>,
             image_data |-> IF outcome \in {"image", "unencodable"}
                            THEN Content(download_url) ELSE <<>>]

\* <<>> is None
image_to_base64(image_data, outcome) ==
    IF outcome = "unencodable" THEN <<>> ELSE <<"base64:">> \o image_data

\* str.split(sep): the pieces between the separators, from position i on
RECURSIVE SplitFrom(_, _, _, _)
SplitFrom(text, sep, i, piece) ==
    IF i > Len(text) THEN <<piece>>
    ELSE IF text[i] = sep THEN <<piece>> \o SplitFrom(text, sep, i + 1, <<>>)
    ELSE SplitFrom(text, sep, i + 1, Append(piece, text[i]))

\* [s for s in items if s]
RECURSIVE NonEmpty(_)
NonEmpty(items) ==
    IF items = <<>> THEN <<>>
    ELSE IF Head(items) = <<>> THEN NonEmpty(Tail(items))
    ELSE <<Head(items)>> \o NonEmpty(Tail(items))

parse_image_urls(value) ==
    IF isna(value) \/ Falsy(value) THEN <<>>
    ELSE LET urls == SplitFrom(str(value), ",", 1, <<>>) IN
         NonEmpty([k \in 1..Len(urls) |-> Strip(urls[k])])

\* for url in urls: the k-th url gets the k-th answer of the network
RECURSIVE EncodeLoop(_, _, _, _)
EncodeLoop(urls, outcomes, k, acc) ==
    IF k > Len(urls) THEN acc
    ELSE LET got == download_image(urls[k], outcomes[k])
             base64_str == IF got.image_data # <<>>
                           THEN image_to_base64(got.image_data, outcomes[k]) ELSE <<>>
         IN EncodeLoop(urls, outcomes, k + 1,
                [requested |-> acc.requested \o got.requested,
                 encoded_images |->
                     IF base64_str # <<>>
                     THEN Append(acc.encoded_images, [url |-> urls[k], base64 |-> base64_str])
                     ELSE acc.encoded_images])

download_and_encode_images(value, outcomes) ==
    EncodeLoop(parse_image_urls(value), outcomes, 1,
               [requested |-> <<>>, encoded_images |-> <<>>])

(***************************************************************************)
(* The image specification: a cell with a list of references and the       *)
(* answers of the network                                                  *)
(***************************************************************************)
\* the items a list of references is made of: plain URLs, share links with
\* an identifier after /file/d/, after id=, after both, and without one
RefPool ==
    {<<>>,
     <<"h", "/", "x">>,
     <<" ", "h", "/", "x", " ">>,
     <<"h", "/", "d", "/", "a">>,
     DriveHost \o <<"/", "f", "i", "l", "e", "/", "d", "/", "a", "-", "1", "/", "v", "i", "e", "w">>,
     DriveHost \o <<"/", "o", "p", "e", "n", "?", "i", "d", "=", "b", "_", "2">>,
     DriveHost \o <<"/", "u", "c", "?", "i", "d", "=", "b", "&", "x", "=", "/", "d", "/", "a">>,
     DriveHost \o <<"/", "f", "o", "l", "d", "e", "r", "s">>}

\* ','.join(items)
RECURSIVE Join(_)
Join(items) ==
    IF items = <<>> THEN <<>>
    ELSE IF Len(items) = 1 THEN items[1]
    ELSE items[1] \o <<",">> \o Join(Tail(items))

InitImages ==
    /\ pc = "images"
    /\ images_string \in {None, NaN} \cup {Str(Join(items)) : items \in SeqsUpTo(RefPool, MaxRefs)}
    /\ net \in [1..MaxRefs -> Outcomes]
    /\ requests = <<>>
    /\ encoded_images = <<>>
    /\ ScratchIdle
    /\ placeholders = {}
    /\ order = <<>>
    /\ df_columns = <<>>
    /\ matched = <<>>
    /\ unmatched = <<>>
    /\ template_file = NoDoc
    /\ df = NoDf
    /\ image_handler = TRUE
    /\ image_data_list = <<>>
    /\ today = <<>>
    /\ template_pos = "start"
    /\ filled_docx = NoResult
    /\ BatchIdle

\* images = image_handler.download_and_encode_images(row['Images'])
DownloadAndEncode ==
    /\ pc = "images"
    /\ LET res == download_and_encode_images(images_string, net) IN
        /\ requests' = res.requested
        /\ encoded_images' = res.encoded_images
    /\ pc' = "encoded"
    /\ UNCHANGED <<matchVars, inputVars, images_string, net, scratchVars, download,
                   filled_docx, template_pos, batchVars>>

NextImages == DownloadAndEncode

SpecImages == InitImages /\ [][NextImages]_vars

(***************************************************************************)
(* The client report branch of the application (src/app.py): the Generate  *)
(* button with the filtered table                                          *)
(***************************************************************************)
\* mutant: two records are still treated as a single report
IsSingleRecord_UpToTwo(record_count) == record_count \in {1, 2}

\* if record_count == 1
IsSingleRecord(record_count) == record_count = 1

\* the file name of the single-record download
SingleFilename(frame, now) ==
    LET site_name == SeriesGet(frame, 0, SiteNameColumn, Str(<<"S", "i", "t", "e">>))
    IN ComposeFilename(Strip(SubIllegal(str(site_name))), DateStr(frame, 0, now))

\* the date column and the suffix of the incident branch
DateOfIncidentColumn == <<"D", "a", "t", "e", " ", "o", "f", " ", "I", "n", "c", "i", "d", "e", "n", "t">>

\* the file name of the single-record download of the incident branch:
\* f"{clean_site_name}_{date_str}_Incident_Report.pdf"
IncidentSingleFilename(frame, now) ==
    LET site_name == SeriesGet(frame, 0, SiteNameColumn, Str(<<"S", "i", "t", "e">>))
        date_str == SeriesGet(frame, 0, DateOfIncidentColumn, Str(now))
    IN Strip(SubIllegal(str(site_name))) \o <<"_">>
       \o (IF notna(date_str) THEN StrReplace(str(date_str), <<"/">>, <<"-">>) ELSE now)
       \o <<"_", "I", "n", "c", "i", "d", "e", "n", "t", "_", "R", "e", "p", "o", "r", "t", ".", "p", "d", "f">>

\* ImageHandler.cleanup_temp_dir: every file of temp_images is removed
cleanup_temp_dir(files) == {file \in files : file.dir # "temp_images"}

\* st.error(...): no download is offered
AppError(parts) == [NoDownload EXCEPT !.kind = "error", !.message = parts]

\* record_count == 1: pdf_bytes = docx_handler.generate_client_report(...)
AppGenerateSingle ==
    /\ pc = "app"
    /\ IsSingleRecord(Len(df.rows))
    /\ \E fill_ok, convert_ok \in BOOLEAN :
        LET report == generate_client_report(template_file, df, 0, image_handler,
                                             image_data_list, fill_ok, convert_ok)
        IN IF report.raised
           THEN /\ download' = AppError(<<"Error generating client PDF: ">> \o report.error)
                /\ temp_dir' = temp_dir \cup report.temp
                /\ cleaned' = cleaned
           ELSE /\ download' = [NoDownload EXCEPT !.kind = "pdf",
                                                  !.file_name = SingleFilename(df, today),
                                                  !.pdf_bytes = report.pdf_bytes]
                /\ temp_dir' = cleanup_temp_dir(temp_dir \cup report.temp)
                /\ cleaned' = TRUE
    /\ template_pos' = "end"
    /\ pc' = "done"
    /\ UNCHANGED <<matchVars, inputVars, imageVars, filled_docx, batchVars>>

\* otherwise: an empty table is refused, else
\* docx_handler.generate_multiple_client_reports(uploaded_template, filtered_df)
AppGenerateBatch ==
    /\ pc = "app"
    /\ ~IsSingleRecord(Len(df.rows))
    /\ IF Len(df.rows) = 0
       THEN /\ download' = AppError(<<"No data available to generate reports. Please check your filters.">>)
            /\ temp_dir' = cleanup_temp_dir(temp_dir)
            /\ cleaned' = TRUE
            /\ pc' = "done"
       ELSE /\ download' = download
            /\ UNCHANGED scratchVars
            /\ pc' = "batch"
    /\ template_pos' = SeekStart(template_pos)
    /\ UNCHANGED <<matchVars, inputVars, imageVars, filled_docx, batchVars>>

\* st.download_button(data=zip_bytes, file_name=zip_filename)
AppBatchReturned ==
    /\ pc = "returned"
    /\ download' = [NoDownload EXCEPT !.kind = "zip",
                                      !.file_name = "SGV_Client_Reports_<timestamp>.zip",
                                      !.zip_bytes = result.zip_bytes]
    /\ temp_dir' = cleanup_temp_dir(temp_dir)
    /\ cleaned' = TRUE
    /\ pc' = "done"
    /\ UNCHANGED <<matchVars, inputVars, imageVars, filled_docx, template_pos, batchVars>>

\* except Exception as e: st.error(...)
AppBatchRaised ==
    /\ pc = "raised"
    /\ download' = AppError(<<"Error generating client PDF: ">> \o result.error)
    /\ pc' = "done"
    /\ UNCHANGED <<matchVars, inputVars, imageVars, scratchVars, filled_docx, template_pos, batchVars>>

\* the filtered table: Site Name and Date columns, any number of records
InitApp ==
    /\ pc = "app"
    /\ template_file = BatchTemplate
    /\ \E rows \in SeqsUpTo(BatchRows(<<SiteNameColumn, DateColumn>>), MaxRecords) :
          df = [kind |-> "frame", columns |-> <<SiteNameColumn, DateColumn>>, rows |-> rows]
    /\ image_handler = TRUE
    /\ image_data_list = <<>>
    /\ today \in Todays
    /\ template_pos = "start"
    /\ placeholders = {}
    /\ order = <<>>
    /\ df_columns = <<>>
    /\ matched = <<>>
    /\ unmatched = <<>>
    /\ filled_docx = NoResult
    /\ BatchIdle
    /\ ImagesIdle
    /\ ScratchIdle

NextApp ==
    \/ AppGenerateSingle
    \/ AppGenerateBatch
    \/ BatchValidate
    \/ BatchRecord
    \/ BatchReturn
    \/ AppBatchReturned
    \/ AppBatchRaised

SpecApp == InitApp /\ [][NextApp]_vars

(***************************************************************************)
(* Claims about the filenames of generate_multiple_client_reports          *)
(***************************************************************************)
Distinct(names) == \A i, j \in 1..Len(names) : names[i] = names[j] => i = j

\* C7: the filenames accumulated by generate_multiple_client_reports are
\* pairwise distinct after every iteration of the per-record loop and in the
\* returned file_list.
C7_DistinctFilenames == Distinct(file_list) /\ Distinct(result.file_list)

\* three records were named, two of them with identical site and date fields
C7_Witness ==
    /\ pc = "returned"
    /\ Len(result.file_list) = 3
    /\ df.columns = <<SiteNameColumn, DateColumn>>
    /\ df.rows[1] = df.rows[2]
    /\ df.rows[2] = df.rows[3]

\* the site and date parts of the filename of record k (counted from 1)
C8_Site(k) == CleanSiteName(df, k - 1)
C8_Date(k) == DateStr(df, k - 1, today)

\* <site>_<date>_Report.pdf for n = 0, <site>_<date>_Report_<n>.pdf otherwise
C8_Name(site, date, n) ==
    IF n = 0 THEN site \o <<"_">> \o date \o <<"_", "R", "e", "p", "o", "r", "t", ".", "p", "d", "f">>
    ELSE site \o <<"_">> \o date \o <<"_", "R", "e", "p", "o", "r", "t", "_">> \o NatToStr(n) \o <<".", "p", "d", "f">>

\* C8 as stated: among the records that share the same cleaned site and
\* normalized date, the first is named <site>_<date>_Report.pdf and the
\* n-th is named <site>_<date>_Report_<n-1>.pdf, whatever is interleaved.
C8_NthOfSiteAndDate ==
    \A k \in 1..Len(file_list) :
        file_list[k] =
            C8_Name(C8_Site(k), C8_Date(k),
                    Cardinality({j \in 1..(k - 1) :
                        C8_Site(j) = C8_Site(k) /\ C8_Date(j) = C8_Date(k)}))

\* C8 amended: among the records whose composed name <site>_<date> is the
\* same, the first is named <site>_<date>_Report.pdf and the n-th is named
\* <site>_<date>_Report_<n-1>.pdf, whatever is interleaved.
C8_NthOfComposedName ==
    \A k \in 1..Len(file_list) :
        file_list[k] =
            C8_Name(C8_Site(k), C8_Date(k),
                    Cardinality({j \in 1..(k - 1) :
                        C8_Site(j) \o <<"_">> \o C8_Date(j)
                            = C8_Site(k) \o <<"_">> \o C8_Date(k)}))

\* three records with the same site and date: ..._Report.pdf, _1, _2
C8_Witness ==
    /\ pc = "returned"
    /\ Len(df.rows) = 3
    /\ df.rows[1] = <<Str(<<"D", "L", "F", " ", "S", "C", "O", "-", "8", "4">>), Str(<<"2", "0", "2", "4", "/", "0", "1", "/", "1", "5">>)>>
    /\ df.rows[2] = df.rows[1]
    /\ df.rows[3] = df.rows[1]
    /\ result.file_list[3] = <<"D", "L", "F", " ", "S", "C", "O", "-", "8", "4", "_", "2", "0", "2", "4", "-", "0", "1", "-", "1", "5", "_", "R", "e", "p", "o", "r", "t", "_", "2", ".", "p", "d", "f">>

C9_Illegal == {"<", ">", ":", "\"", "/", "\\", "|", "?", "*"}

C9_Blank == {" ", "\t", "\n", "\r"}

\* each illegal character replaced by "_", then surrounding whitespace trimmed
C9_Clean(s) ==
    LET replaced == [i \in 1..Len(s) |-> IF s[i] \in C9_Illegal THEN "_" ELSE s[i]]
        kept == {i \in 1..Len(s) : s[i] \notin C9_Blank}
    IN IF kept = {} THEN <<>>
       ELSE SubSeq(replaced, CHOOSE i \in kept : \A j \in kept : i <= j,
                             CHOOSE i \in kept : \A j \in kept : j <= i)

\* every "/" replaced by "-"
C9_Norm(d) == [i \in 1..Len(d) |-> IF d[i] = "/" THEN "-" ELSE d[i]]

C9_Column(column) == CHOOSE c \in 1..Len(df.columns) : df.columns[c] = column

C9_HasColumn(column) == \E c \in 1..Len(df.columns) : df.columns[c] = column

\* the date part for record k: the current date when the date is null
C9_DatePart(k) ==
    IF ~C9_HasColumn(DateColumn) THEN today
    ELSE LET d == df.rows[k][C9_Column(DateColumn)] IN
         IF d.t = "str" THEN C9_Norm(d.v) ELSE today

\* C9: for a record with site value s and date value d, the filename
\* composed before collision handling is clean(s)_norm(d)_Report.pdf; when
\* the date is null the current date is used.
C9_ComposedFilename ==
    (pc \in {"loop", "raised", "returned"} /\ Len(file_list) >= 1
        /\ C9_HasColumn(SiteNameColumn)
        /\ df.rows[Len(file_list)][C9_Column(SiteNameColumn)].t = "str") =>
        original_filename =
            C9_Clean(df.rows[Len(file_list)][C9_Column(SiteNameColumn)].v)
                \o <<"_">> \o C9_DatePart(Len(file_list)) \o <<"_", "R", "e", "p", "o", "r", "t", ".", "p", "d", "f">>

\* the example of the specification, then a site that is cleaned and trimmed
\* with a null date
C9_Witness ==
    /\ pc = "returned"
    /\ Len(df.rows) = 2
    /\ df.rows[1] = <<Str(<<"D", "L", "F", " ", "S", "C", "O", "-", "8", "4">>), Str(<<"2", "0", "2", "4", "/", "0", "1", "/", "1", "5">>)>>
    /\ df.rows[2] = <<Str(<<" ", "D", "L", "F", " ", "S", "C", "O", "-", "8", "4", "/", "B", " ">>), NaN>>
    /\ result.file_list[1] = <<"D", "L", "F", " ", "S", "C", "O", "-", "8", "4", "_", "2", "0", "2", "4", "-", "0", "1", "-", "1", "5", "_", "R", "e", "p", "o", "r", "t", ".", "p", "d", "f">>
    /\ original_filename = <<"D", "L", "F", " ", "S", "C", "O", "-", "8", "4", "_", "B">> \o <<"_">> \o today \o <<"_", "R", "e", "p", "o", "r", "t", ".", "p", "d", "f">>

\* the site field of record k is absent from the table, null or empty
C10_SiteBlank(k) ==
    \/ ~C9_HasColumn(SiteNameColumn)
    \/ df.rows[k][C9_Column(SiteNameColumn)] \in {None, NaN, Str(<<>>)}

\* C10: when the site field of the record at index i is absent or blank, the
\* filename uses the synthetic site name Site_<i+1>.
C10_SyntheticSiteName ==
    (pc \in {"loop", "raised", "returned"} /\ Len(file_list) >= 1
        /\ C10_SiteBlank(Len(file_list))) =>
        original_filename =
            <<"S", "i", "t", "e", "_">> \o NatToStr(Len(file_list)) \o <<"_">>
                \o C9_DatePart(Len(file_list)) \o <<"_", "R", "e", "p", "o", "r", "t", ".", "p", "d", "f">>

(***************************************************************************)
(* Claims about the failures of generate_multiple_client_reports           *)
(***************************************************************************)
\* the record collection is None, not a collection, or empty
C11_Invalid == df.kind # "frame" \/ Len(df.rows) = 0

C12_AbortsBatch ==
    \A k \in 1..Len(calls) :
        ~calls[k].converted =>
            /\ pc = "raised"
            /\ result.raised
            /\ result.zip_bytes = <<>>
            /\ result.report_count = 0
            /\ result.file_list = <<>>
            /\ k = Len(calls)
            /\ calls[k].row_index = index
            /\ Len(zip_file) = index

C12_Witness ==
    /\ pc = "raised"
    /\ Len(calls) = 3
    /\ calls[3].filled
    /\ ~calls[3].converted
    /\ Len(zip_file) = 2
    /\ result.zip_bytes = <<>>

\* the texts that would identify the record at position i (counted from 0
\* as the loop does, or from 1 as the progress messages do)
C13_IndexTexts(i) == {ToString(i), ToString(i + 1)}

\* C13: the error raised when record i fails carries the index of the
\* failed record together with the message of the originating error.
C13_ErrorNamesRecord ==
    (pc = "raised" /\ calls # <<>>) =>
        /\ \E k \in 1..Len(result.error) : result.error[k] \in {"renderer failure", "filler failure"}
        /\ \E k \in 1..Len(result.error) : result.error[k] \in C13_IndexTexts(index)

(***************************************************************************)
(* Claims about the archive of generate_multiple_client_reports            *)
(***************************************************************************)
\* what a token of the template becomes for record k (counted from 1): the
\* record's value as text, nothing for a null, the token when the record
\* has no such field
C14_Field(k, column) ==
    IF \E c \in 1..Len(df.columns) : df.columns[c] = column
    THEN LET value == df.rows[k][CHOOSE c \in 1..Len(df.columns) : df.columns[c] = column]
         IN IF value.t \in {"none", "nan"} THEN <<>> ELSE value.v
    ELSE <<"{">> \o column \o <<"}">>

\* the report of record k: the template with the tokens of its paragraph
\* and of its table cell filled from record k
C14_ReportOf(k) ==
    [pdf |-> [paragraphs |-> <<C14_Field(k, SiteNameColumn)>>,
              cells |-> <<C14_Field(k, DateColumn)>>]]

\* C14: on success the call returns (archive, count, file_list) with count
\* = number of records = length of file_list = number of archive entries;
\* the k-th name of file_list names the archive entry that holds the report
\* of the k-th record, the records having been processed one at a time in
\* table order.
C14_ReturnedTuple ==
    pc = "returned" =>
        /\ ~result.raised
        /\ result.report_count = Len(df.rows)
        /\ Len(result.file_list) = Len(df.rows)
        /\ Len(result.zip_bytes) = Len(df.rows)
        /\ \A k \in 1..Len(df.rows) :
              /\ result.zip_bytes[k][1] = result.file_list[k]
              /\ result.zip_bytes[k][2] = C14_ReportOf(k)
        /\ Len(calls) = Len(df.rows)
        /\ \A k \in 1..Len(calls) : calls[k].row_index = k - 1

C14_Witness ==
    /\ pc = "returned"
    /\ result.report_count = 3
    /\ result.zip_bytes[1][2] # result.zip_bytes[2][2]
    /\ result.zip_bytes[2][2] # result.zip_bytes[3][2]
    /\ result.file_list[1] # result.file_list[3]

\* C15: every record of a batch is filled from a fresh parse of the
\* unmodified template: the template stream is at its start when each
\* record's report is generated, the template input is never altered, and
\* the report of record i is the original template filled from record i
\* only.
C15_FreshTemplate ==
    /\ pc # "batch" => template_file = BatchTemplate
    /\ \A k \in 1..Len(calls) : calls[k].read_at = "start"
    /\ \A k \in 1..Len(zip_file) : zip_file[k][2] = C14_ReportOf(k)

C15_Witness ==
    /\ Len(zip_file) = 2
    /\ Len(calls) = 2
    /\ calls[2].read_at = "start"
    /\ template_pos = "end"
    /\ zip_file[1][2] # zip_file[2][2]
    /\ zip_file[2][2] = C14_ReportOf(2)

(***************************************************************************)
(* Claims about embed_images                                               *)
(***************************************************************************)
\* the image placeholder tokens
C16_Tokens == {<<"{">> \o Images \o <<"}">>, <<"{">> \o EvidencePhotos \o <<"}">>}

\* the record has no value for the image field: absent, null or empty
C16_NoValue(name) ==
    \A c \in 1..Len(df.columns) :
        df.columns[c] = name => df.rows[1][c] \in {None, NaN, Str(<<>>)}

\* the number of pictures in a text
C16_Pictures(text) == Cardinality({i \in 1..Len(text) : text[i] \in ImageData})

\* C16: a template with an image placeholder filled from a record that has
\* no value for it (field absent, null or empty) gives, without an
\* exception, a document with no image and without the placeholder token.
C16_TokenRemovedWithoutImages ==
    (pc = "filled" /\ image_handler /\ C16_NoValue(Images) /\ C16_NoValue(EvidencePhotos)) =>
        /\ ~filled_docx.raised
        /\ \A i \in 1..Len(Texts(filled_docx.doc)) :
              /\ C16_Pictures(Texts(filled_docx.doc)[i]) = 0
              /\ \A token \in C16_Tokens : ~Contains(Texts(filled_docx.doc)[i], token)

\* the token of the kind the fill resolves: the incident kind when the
\* template holds it, else the monitoring kind, <<>> when it holds neither
C19_Token ==
    IF \E i \in 1..Len(Texts(template_file)) :
           Contains(Texts(template_file)[i], <<"{">> \o EvidencePhotos \o <<"}">>)
    THEN <<"{">> \o EvidencePhotos \o <<"}">>
    ELSE IF \E i \in 1..Len(Texts(template_file)) :
                Contains(Texts(template_file)[i], <<"{">> \o Images \o <<"}">>)
    THEN <<"{">> \o Images \o <<"}">>
    ELSE <<>>

\* the field of that kind holds image references
C19_HasReferences ==
    \E c \in 1..Len(df.columns) :
        /\ <<"{">> \o df.columns[c] \o <<"}">> = C19_Token
        /\ df.rows[1][c].t = "str"
        /\ df.rows[1][c].v # <<>>

\* the record supplies references, images were retrieved for them, and the
\* document has been filled
C19_Embedding ==
    /\ pc = "filled"
    /\ image_handler
    /\ C19_Token # <<>>
    /\ C19_HasReferences
    /\ image_data_list # <<>>
    /\ \A k \in 1..Len(image_data_list) : image_data_list[k] # "bad"

\* the paragraphs, then the cells, of the template that hold the token
C19_ParagraphsWith == {p \in 1..Len(template_file.paragraphs) :
                          Contains(template_file.paragraphs[p], C19_Token)}
C19_CellsWith == {c \in 1..Len(template_file.cells) :
                     Contains(template_file.cells[c], C19_Token)}

C19_Min(S) == CHOOSE x \in S : \A y \in S : x <= y

\* C19: when the record supplies image references and images are
\* retrieved, only the first occurrence of the image placeholder is
\* populated, paragraphs searched before table cells: its token is
\* stripped, every later occurrence keeps its token and gets no image, and
\* when a paragraph holds the token no table cell is modified.
C19_OnlyFirstOccurrence ==
    C19_Embedding =>
        IF C19_ParagraphsWith # {}
        THEN /\ ~Contains(filled_docx.doc.paragraphs[C19_Min(C19_ParagraphsWith)], C19_Token)
             /\ \A p \in C19_ParagraphsWith \ {C19_Min(C19_ParagraphsWith)} :
                   filled_docx.doc.paragraphs[p] = template_file.paragraphs[p]
             /\ filled_docx.doc.cells = template_file.cells
        ELSE /\ ~Contains(filled_docx.doc.cells[C19_Min(C19_CellsWith)], C19_Token)
             /\ C16_Pictures(filled_docx.doc.cells[C19_Min(C19_CellsWith)]) = Len(image_data_list)
             /\ \A c \in C19_CellsWith \ {C19_Min(C19_CellsWith)} :
                   filled_docx.doc.cells[c] = template_file.cells[c]
             /\ filled_docx.doc.paragraphs = template_file.paragraphs

\* the elements inserted for the images from the i-th on (counted from 1):
\* the picture and its caption, in retrieval order
RECURSIVE C20_Inserted(_)
C20_Inserted(i) ==
    IF i > Len(image_data_list) THEN <<>>
    ELSE <<<<image_data_list[i]>>, <<"I", "m", "a", "g", "e", " ">> \o NatToStr(i)>>
         \o C20_Inserted(i + 1)

\* C20: when the placeholder is found in a paragraph, the token is
\* stripped from that paragraph and the retrieved images are inserted, in
\* retrieval order, right after that paragraph, before the paragraphs that
\* followed it in the template.
C20_ImagesFollowParagraph ==
    (C19_Embedding /\ C19_ParagraphsWith # {}) =>
        LET p == C19_Min(C19_ParagraphsWith)
            before == SubSeq(template_file.paragraphs, 1, p - 1)
            after == SubSeq(template_file.paragraphs, p + 1, Len(template_file.paragraphs))
        IN filled_docx.doc.paragraphs =
               before \o <<StrReplace(template_file.paragraphs[p], C19_Token, <<>>)>>
                      \o C20_Inserted(1) \o after

(***************************************************************************)
(* Claims about extract_placeholders                                       *)
(***************************************************************************)
\* the names N, one or more characters other than "}", such that the token
\* {N} occurs in the text
C18_Names(text) ==
    {SubSeq(text, i + 1, j - 1) :
        <<i, j>> \in {ij \in (1..Len(text)) \X (1..Len(text)) :
                        /\ ij[1] + 1 < ij[2]
                        /\ text[ij[1]] = "{"
                        /\ text[ij[2]] = "}"
                        /\ \A k \in (ij[1] + 1)..(ij[2] - 1) : text[k] # "}"}}

C18_AllNames == UNION {C18_Names(Texts(template_file)[i]) : i \in 1..Len(Texts(template_file))}

\* no "{" of the text is followed by another "{" before the next "}"
C18_NoNested(text) ==
    \A i, j \in 1..Len(text) :
        (i < j /\ text[i] = "{" /\ text[j] = "{") => \E k \in (i + 1)..(j - 1) : text[k] = "}"

\* C18 as stated: extract_placeholders returns exactly the set of names N
\* such that a token {N} occurs in the text of some paragraph or table cell.
C18_ExactlyTheTokens ==
    pc = "extracted" => placeholders = C18_AllNames

\* C18 amended: extract_placeholders returns names of tokens that occur in
\* the text of some paragraph or table cell, and exactly all of them when
\* no "{" of a text is followed by another "{" before the next "}"; a
\* template without tokens yields the empty set.
C18_TokensOfPlainTexts ==
    pc = "extracted" =>
        /\ placeholders \subseteq C18_AllNames
        /\ (\A i \in 1..Len(Texts(template_file)) : C18_NoNested(Texts(template_file)[i]))
               => placeholders = C18_AllNames

C18_Witness ==
    /\ pc = "extracted"
    /\ C18_Names(template_file.paragraphs[1]) = {}
    /\ C18_NoNested(template_file.cells[1])
    /\ Cardinality(C18_Names(template_file.cells[1])) = 2
    /\ placeholders = C18_Names(template_file.cells[1])

(***************************************************************************)
(* Claims about the client report branch of the application                *)
(***************************************************************************)
\* the text ends with ".pdf"
C17_IsPdfName(name) ==
    /\ Len(name) > 4
    /\ SubSeq(name, Len(name) - 3, Len(name)) = <<".", "p", "d", "f">>

\* C17: a client report run that succeeds on a table of exactly one record
\* offers a single PDF produced directly, no archive being made; on a
\* table of more than one record it offers one ZIP archive holding
\* exactly one named PDF entry per record.
C17_SinglePdfOrArchive ==
    (pc = "done" /\ download.kind # "error") =>
        /\ Len(df.rows) = 1 =>
              /\ download.kind = "pdf"
              /\ download.pdf_bytes = C14_ReportOf(1)
              /\ download.zip_bytes = <<>>
              /\ zip_buffer = "none"
              /\ calls = <<>>
        /\ Len(df.rows) > 1 =>
              /\ download.kind = "zip"
              /\ zip_buffer = "closed"
              /\ Len(download.zip_bytes) = Len(df.rows)
              /\ \A k \in 1..Len(df.rows) :
                    /\ C17_IsPdfName(download.zip_bytes[k][1])
                    /\ download.zip_bytes[k][2] = C14_ReportOf(k)
                    /\ \A j \in 1..Len(df.rows) :
                          download.zip_bytes[j][1] = download.zip_bytes[k][1] => j = k

C17_Witness ==
    /\ pc = "done"
    /\ download.kind = "zip"
    /\ Len(df.rows) = 2
    /\ Len(download.zip_bytes) = 2
    /\ download.zip_bytes[1][1] # download.zip_bytes[2][1]

\* the text holds the k-th retrieved image directly followed, after the
\* paragraph break, by its caption
C21_CaptionedInCell(text, k) ==
    \E i \in 1..Len(text) :
        /\ text[i] = image_data_list[k]
        /\ StartsWithAt(text, <<"\n", "I", "m", "a", "g", "e", " ">> \o NatToStr(k), i + 1)

\* the k-th retrieved image is a paragraph directly followed by the
\* paragraph of its caption
C21_CaptionedInBody(paragraphs, k) ==
    \E i \in 1..(Len(paragraphs) - 1) :
        /\ paragraphs[i] = <<image_data_list[k]>>
        /\ paragraphs[i + 1] = <<"I", "m", "a", "g", "e", " ">> \o NatToStr(k)

\* C21: every image embedded for the record comes with the numbered
\* caption "Image k", k = 1, 2, ... in insertion order, when the placeholder
\* is in a paragraph and when it is in a table cell.
C21_NumberedCaptions ==
    C19_Embedding =>
        \A k \in 1..Len(image_data_list) :
            IF C19_ParagraphsWith # {}
            THEN C21_CaptionedInBody(filled_docx.doc.paragraphs, k)
            ELSE C21_CaptionedInCell(filled_docx.doc.cells[C19_Min(C19_CellsWith)], k)

\* the text of the list of references, empty for a missing value
C22_Text == IF images_string.t = "str" THEN images_string.v ELSE <<>>

\* the references of the list in order: the text between two neighbouring
\* commas (or ends of the text) without the blanks around it, where there is
\* any
C22_Refs ==
    LET text == C22_Text
        cuts == {0, Len(text) + 1} \cup {i \in 1..Len(text) : text[i] = ","}
        next(a) == CHOOSE c \in cuts : c > a /\ \A d \in cuts : d > a => c <= d
        inside(a) == {i \in (a + 1)..(next(a) - 1) : text[i] # " "}
        starts == {a \in cuts \ {Len(text) + 1} : inside(a) # {}}
        ref(a) == LET among == inside(a)
                      lo == CHOOSE i \in among : \A j \in among : i <= j
                      hi == CHOOSE i \in among : \A j \in among : j <= i
                  IN SubSeq(text, lo, hi)
    IN [k \in 1..Cardinality(starts) |->
            ref(CHOOSE x \in starts : Cardinality({y \in starts : y < x}) = k - 1)]

\* the identifier after the leftmost occurrence of the prefix that an
\* identifier character follows, <<>> when there is none
C25_IdAfter(url, prefix) ==
    LET at == {i \in 1..Len(url) :
                  /\ StartsWithAt(url, prefix, i)
                  /\ i + Len(prefix) <= Len(url)
                  /\ url[i + Len(prefix)] \in IdChars}
    IN IF at = {} THEN <<>>
       ELSE LET i == CHOOSE x \in at : \A y \in at : x <= y
                from == i + Len(prefix)
                upto == CHOOSE j \in from..Len(url) :
                            /\ j = Len(url) \/ url[j + 1] \notin IdChars
                            /\ \A m \in from..j : url[m] \in IdChars
            IN SubSeq(url, from, upto)

\* the URL the reference is to be requested at, <<>> when there is none
C25_Target(ref) ==
    IF ~Contains(ref, DriveHost) THEN ref
    ELSE IF C25_IdAfter(ref, <<"/", "d", "/">>) # <<>>
    THEN DirectDownloadPrefix \o C25_IdAfter(ref, <<"/", "d", "/">>)
    ELSE IF C25_IdAfter(ref, <<"i", "d", "=">>) # <<>>
    THEN DirectDownloadPrefix \o C25_IdAfter(ref, <<"i", "d", "=">>)
    ELSE IF C25_IdAfter(ref, <<"/", "f", "i", "l", "e", "/", "d", "/">>) # <<>>
    THEN DirectDownloadPrefix \o C25_IdAfter(ref, <<"/", "f", "i", "l", "e", "/", "d", "/">>)
    ELSE <<>>

\* the references fetched and decoded successfully
C22_Succeeded(refs) ==
    {k \in 1..Len(refs) : net[k] = "image" /\ C25_Target(refs[k]) # <<>>}

RECURSIVE C25_Targets(_)
C25_Targets(refs) ==
    IF refs = <<>> THEN <<>>
    ELSE IF C25_Target(Head(refs)) = <<>> THEN C25_Targets(Tail(refs))
    ELSE <<C25_Target(Head(refs))>> \o C25_Targets(Tail(refs))

\* C25: a share link is requested at the direct-download form of the
\* identifier that follows /d/, id= or /file/d/ (tried in that order, the
\* first match wins); a share link without an identifier is not requested and
\* gives no image; any other URL is requested unchanged.
C25_RequestsDirectDownloadForm ==
    pc = "encoded" =>
        LET refs == C22_Refs IN
        /\ requests = C25_Targets(refs)
        /\ \A k \in 1..Len(refs) :
               C25_Target(refs[k]) = <<>> =>
                   \A n \in 1..Len(encoded_images) : encoded_images[n].url # refs[k]

\* a share link with id= before /d/ is requested by the identifier after
\* /d/, and the share link without an identifier is not requested
C25_Witness ==
    /\ pc = "encoded"
    /\ requests = <<DirectDownloadPrefix \o <<"a">>>>
    /\ net[1] = "image"
    /\ Len(encoded_images) = 1
    /\ LET refs == C22_Refs IN
        /\ Len(refs) = 2
        /\ Contains(refs[1], <<"i", "d", "=", "b", "&">>)
        /\ refs[2] = DriveHost \o <<"/", "f", "o", "l", "d", "e", "r", "s">>

\* C24: every run that starts generating a client report has invoked
\* ImageHandler.cleanup_temp_dir by the time control returns to the user.
C24_CleanedWhenRunEnds == pc = "done" => cleaned

\* C29: after convert_docx_to_pdf has returned or raised, neither
\* temp_report.docx nor temp_report.pdf exists any more.
C29_NoTempReportLeft == temp_dir \cap {temp_docx, temp_pdf} = {}

\* the template holds tokens of both reserved image kinds
C26_BothKinds ==
    /\ \E i \in 1..Len(Texts(template_file)) :
           Contains(Texts(template_file)[i], <<"{">> \o EvidencePhotos \o <<"}">>)
    /\ \E i \in 1..Len(Texts(template_file)) :
           Contains(Texts(template_file)[i], <<"{">> \o Images \o <<"}">>)

\* C26: when the template holds both reserved image placeholders, the fill
\* resolves the {EVIDENCE & ATTACHMENTS - Photos} kind (its first token is
\* stripped) and leaves every text with an {Images} token as it was: not
\* stripped, and without images.
C26_ResolvesEvidenceKindOnly ==
    (C19_Embedding /\ C26_BothKinds) =>
        /\ IF C19_ParagraphsWith # {}
           THEN ~Contains(filled_docx.doc.paragraphs[C19_Min(C19_ParagraphsWith)], C19_Token)
           ELSE ~Contains(filled_docx.doc.cells[C19_Min(C19_CellsWith)], C19_Token)
        /\ \A p \in 1..Len(template_file.paragraphs) :
               Contains(template_file.paragraphs[p], <<"{">> \o Images \o <<"}">>) =>
                   filled_docx.doc.paragraphs[p] = template_file.paragraphs[p]
        /\ \A c \in 1..Len(template_file.cells) :
               Contains(template_file.cells[c], <<"{">> \o Images \o <<"}">>) =>
                   filled_docx.doc.cells[c] = template_file.cells[c]

\* the record with its fields in the order perm
C27_Reordered(perm) ==
    [df EXCEPT !.columns = [c \in 1..Len(df.columns) |-> df.columns[perm[c]]],
               !.rows = <<[c \in 1..Len(df.columns) |-> df.rows[1][perm[c]]]>>]

\* C27: the filled text does not depend on the order of the record's
\* fields, and a text that is the token of one field is filled with exactly
\* that field's value, also when the value holds the token of another
\* field: what a value brings in is never substituted again.
C27_SimultaneousSubstitution ==
    (pc = "filled" /\ ~filled_docx.raised) =>
        /\ \A perm \in Perms(1..Len(df.columns)) :
               generate_from_template(template_file, C27_Reordered(perm), 0, image_handler,
                                      image_data_list, TRUE).doc = filled_docx.doc
        /\ \A i \in 1..Len(Texts(template_file)) : \A c \in C4_Fields :
               Texts(template_file)[i] = <<"{">> \o FillColumns[c] \o <<"}">> =>
                   Texts(filled_docx.doc)[i] = C4_ValueOf(FillColumns[c])

\* C28: no filename in file_list or in the archive holds one of the
\* characters < > : " / \ | ? *, whatever the site and date values are,
\* dates that carry a time of day included.
C28_NoIllegalCharacter ==
    /\ \A k \in 1..Len(file_list) : \A i \in 1..Len(file_list[k]) :
           file_list[k][i] \notin C9_Illegal
    /\ \A k \in 1..Len(zip_file) : \A i \in 1..Len(zip_file[k][1]) :
           zip_file[k][1][i] \notin C9_Illegal

\* C30: the filename the batch derives for the first record of a table is
\* the filename the single-record path of the application derives for that
\* record, in the monitoring branch and in the incident branch.
C30_SinglePathNameIsBatchName ==
    (pc \in {"loop", "raised", "returned"} /\ Len(file_list) >= 1) =>
        /\ file_list[1] = SingleFilename(df, today)
        /\ file_list[1] = IncidentSingleFilename(df, today)

====
